---- MODULE Spec2Model ----
(***************************************************************************)
(* The Redux store of the todo application (src/unnamed/part_000): the    *)
(* "ui" slice, the "todos" slice, the two filtered selectors, and the     *)
(* handlers of the component tree that dispatch into the store.           *)
(*                                                                         *)
(* Titles are sequences of characters, so that String.prototype.trim is   *)
(* modelled by what it does.  nanoid() is modelled as returning an id it  *)
(* has not returned before (its documented contract; a collision of two   *)
(* 21-character random ids is not modelled).  Date.now() reads a logical  *)
(* clock that advances with every record created.                         *)
(*                                                                         *)
(* addTodo is dispatched only by TodosCard.handleAdd.  toggleTodo and      *)
(* removeTodo are dispatched with any id, present or not (a second press   *)
(* on a card that is about to disappear).  clearTodos and dismissBanner    *)
(* have no caller in the component tree and are dispatched directly.       *)
(* Definitions named as a variant of another (dismissBannerFlip,          *)
(* addTodoPush, ...) are faulty versions of it, used to show that the      *)
(* properties at the end depend on the definition they vary.               *)
(***************************************************************************)
EXTENDS Integers, Sequences, FiniteSets, TLC

\* Bound of the model: the ids nanoid() can hand out before the model stops
\* creating records.
NumIds == 3

Ids == 1 .. NumIds

\* Characters String.prototype.trim strips.
WhiteSpace == {" ", "\t", "\n"}

\* The texts typed into the TextInput of TodosCard.
BuyMilk == <<"B", "u", "y", " ", "m", "i", "l", "k">>
WalkDog == <<"W", "a", "l", "k", " ", "d", "o", "g">>
TitleInputs ==
    {<<>>, <<" ", " ", " ">>, BuyMilk, WalkDog, <<" ">> \o WalkDog \o <<"\n">>}

VARIABLES
    ui,       \* state.ui    : [darkMode, showBanner]
    todos,    \* state.todos : [items], newest first
    issued,   \* every id nanoid() has returned so far (history)
    clock,    \* the value Date.now() returns next
    last,     \* the last intent issued and its argument (history)
    adds      \* the addTask calls with a non-blank title, counted while no
              \* other intent has been issued (history)

vars == <<ui, todos, issued, clock, last, adds>>

----------------------------------------------------------------------------
\* String.prototype.trim: strips whitespace from both ends.

RECURSIVE trimStart(_)
trimStart(s) ==
    IF s # <<>> /\ Head(s) \in WhiteSpace THEN trimStart(Tail(s)) ELSE s

RECURSIVE trimEnd(_)
trimEnd(s) ==
    IF s # <<>> /\ s[Len(s)] \in WhiteSpace
    THEN trimEnd(SubSeq(s, 1, Len(s) - 1))
    ELSE s

trim(s) == trimEnd(trimStart(s))

----------------------------------------------------------------------------
\* uiSlice

uiInitialState == [darkMode |-> FALSE, showBanner |-> TRUE]

\* Variant of toggleDarkMode: switches dark mode on.
toggleDarkModeOn(state) == [state EXCEPT !.darkMode = TRUE]

toggleDarkMode(state) == [state EXCEPT !.darkMode = ~state.darkMode]

\* Variant of dismissBanner: flips the flag.
dismissBannerFlip(state) == [state EXCEPT !.showBanner = ~state.showBanner]

dismissBanner(state) == [state EXCEPT !.showBanner = FALSE]

----------------------------------------------------------------------------
\* todosSlice

todosInitialState == [items |-> <<>>]

idsOf(its) == {its[i].id : i \in 1 .. Len(its)}

\* The ids nanoid() may return: any id it has not returned before.
nanoid == Ids \ issued

\* addTodo.prepare(title): the payloads it may build, one per id nanoid()
\* may return.
\* Variant of prepare: the id is the position, not a nanoid.
prepareLengthId(title) ==
    {[id |-> Len(todos.items) + 1, title |-> title, done |-> FALSE,
      createdAt |-> clock]}

prepare(title) ==
    {[id |-> i, title |-> title, done |-> FALSE, createdAt |-> clock] :
        i \in nanoid}

\* addTodo.reducer: state.items.unshift(action.payload)
\* Variant of addTodo: push instead of unshift.
addTodoPush(state, payload) ==
    [state EXCEPT !.items = Append(state.items, payload)]

addTodo(state, payload) ==
    [state EXCEPT !.items = <<payload>> \o state.items]

\* Array.prototype.find: the index of the first element with the id, 0 if none.
find(its, id) ==
    IF \E i \in 1 .. Len(its) : its[i].id = id
    THEN CHOOSE i \in 1 .. Len(its) :
            /\ its[i].id = id
            /\ \A j \in 1 .. (i - 1) : its[j].id # id
    ELSE 0

\* Variants of toggleTodo: sets done instead of negating it; moves the
\* toggled record to the front.
toggleTodoSetDone(state, id) ==
    LET t == find(state.items, id)
    IN  IF t # 0
        THEN [state EXCEPT !.items[t].done = TRUE]
        ELSE state

toggleTodoToFront(state, id) ==
    LET t == find(state.items, id)
    IN  IF t # 0
        THEN [state EXCEPT !.items =
                <<[state.items[t] EXCEPT !.done = ~state.items[t].done]>>
                \o SelectSeq(state.items, LAMBDA x : x.id # id)]
        ELSE state

toggleTodo(state, id) ==
    LET t == find(state.items, id)
    IN  IF t # 0
        THEN [state EXCEPT !.items[t].done = ~state.items[t].done]
        ELSE state

\* Variant of removeTodo: the filter keeps the matching record.
removeTodoKeepOnly(state, id) ==
    [state EXCEPT !.items = SelectSeq(state.items, LAMBDA x : x.id = id)]

removeTodo(state, id) ==
    [state EXCEPT !.items = SelectSeq(state.items, LAMBDA x : x.id # id)]

clearTodos(state) == [state EXCEPT !.items = <<>>]

\* Variant of clearPending: drops every record.
clearPendingAll(state) == [state EXCEPT !.items = <<>>]

clearPending(state) ==
    [state EXCEPT !.items = SelectSeq(state.items, LAMBDA item : item.done)]

\* Variant of clearCompleted: the filter keeps the done records.
clearCompletedSwapped(state) ==
    [state EXCEPT !.items = SelectSeq(state.items, LAMBDA item : item.done)]

clearCompleted(state) ==
    [state EXCEPT !.items = SelectSeq(state.items, LAMBDA item : ~item.done)]

----------------------------------------------------------------------------
\* Selectors of PendingTasksCard and CompletedTasksCard.

pendingItemsOf(state) == SelectSeq(state.items, LAMBDA item : ~item.done)

\* Variant of completedItemsOf: no filter.
completedItemsOfAll(state) == state.items

completedItemsOf(state) == SelectSeq(state.items, LAMBDA item : item.done)

pendingItems == pendingItemsOf(todos)

completedItems == completedItemsOf(todos)

----------------------------------------------------------------------------
\* The store after construction.

NoIntent == [op |-> "init", id |-> 0, blank |-> FALSE]

NotOnlyAdds == [only |-> FALSE, nonBlank |-> 0]

Intent(op, id, blank) == [op |-> op, id |-> id, blank |-> blank]

Init ==
    /\ ui = uiInitialState
    /\ todos = todosInitialState
    /\ issued = {}
    /\ clock = 0
    /\ last = NoIntent
    /\ adds = [only |-> TRUE, nonBlank |-> 0]

\* TodosCard.handleAdd with `title` in the TextInput: returns early when the
\* trimmed title is empty, otherwise dispatches addTodo(title.trim()).
\* Once nanoid has handed out NumIds ids no further record is created.
\* Variant of handleAddGuard: no early return.
handleAddNoGuard(title) == TRUE

handleAddGuard(title) == trim(title) # <<>>

HandleAdd(title) ==
    /\ last' = Intent("addTask", 0, trim(title) = <<>>)
    /\ adds' = IF adds.only /\ trim(title) # <<>>
               THEN [adds EXCEPT !.nonBlank = @ + 1]
               ELSE adds
    /\ IF ~handleAddGuard(title)
       THEN UNCHANGED <<ui, todos, issued, clock>>
       ELSE \E payload \in prepare(trim(title)) :
                /\ todos' = addTodo(todos, payload)
                /\ issued' = issued \cup {payload.id}
                /\ clock' = clock + 1
                /\ UNCHANGED ui

\* AppScaffold.handleToggle(id): dispatch(toggleTodo(id)).
HandleToggle(id) ==
    /\ todos' = toggleTodo(todos, id)
    /\ last' = Intent("toggleTask", id, FALSE)
    /\ adds' = NotOnlyAdds
    /\ UNCHANGED <<ui, issued, clock>>

\* The Remove buttons: dispatch(removeTodo(id)).
RemoveTodo(id) ==
    /\ todos' = removeTodo(todos, id)
    /\ last' = Intent("removeTask", id, FALSE)
    /\ adds' = NotOnlyAdds
    /\ UNCHANGED <<ui, issued, clock>>

\* dispatch(clearTodos())
ClearTodos ==
    /\ todos' = clearTodos(todos)
    /\ last' = Intent("clearAll", 0, FALSE)
    /\ adds' = NotOnlyAdds
    /\ UNCHANGED <<ui, issued, clock>>

\* The Clear All button of PendingTasksCard: dispatch(clearPending()).
ClearPending ==
    /\ todos' = clearPending(todos)
    /\ last' = Intent("clearPending", 0, FALSE)
    /\ adds' = NotOnlyAdds
    /\ UNCHANGED <<ui, issued, clock>>

\* Variant of ClearCompleted: the ui slice reacts to the action too and
\* hides the banner.
ClearCompletedHidesBanner ==
    /\ todos' = clearCompleted(todos)
    /\ ui' = dismissBanner(ui)
    /\ last' = Intent("clearCompleted", 0, FALSE)
    /\ adds' = NotOnlyAdds
    /\ UNCHANGED <<issued, clock>>

\* The Clear All button of CompletedTasksCard: dispatch(clearCompleted()).
ClearCompleted ==
    /\ todos' = clearCompleted(todos)
    /\ last' = Intent("clearCompleted", 0, FALSE)
    /\ adds' = NotOnlyAdds
    /\ UNCHANGED <<ui, issued, clock>>

\* DarkModeSwitch.onValueChange: dispatch(toggleDarkMode()).
ToggleDarkMode ==
    /\ ui' = toggleDarkMode(ui)
    /\ last' = Intent("toggleDarkMode", 0, FALSE)
    /\ adds' = NotOnlyAdds
    /\ UNCHANGED <<todos, issued, clock>>

\* dispatch(dismissBanner())
DismissBanner ==
    /\ ui' = dismissBanner(ui)
    /\ last' = Intent("dismissBanner", 0, FALSE)
    /\ adds' = NotOnlyAdds
    /\ UNCHANGED <<todos, issued, clock>>

Next ==
    \/ \E title \in TitleInputs : HandleAdd(title)
    \/ \E id \in Ids : HandleToggle(id)
    \/ \E id \in Ids : RemoveTodo(id)
    \/ ClearTodos
    \/ ClearPending
    \/ ClearCompleted
    \/ ToggleDarkMode
    \/ DismissBanner

Spec == Init /\ [][Next]_vars

----------------------------------------------------------------------------
\* Shorthands used by the properties below.

items == todos.items

Created == last.op = "addTask" /\ ~last.blank

\* The sequence its with the element at index k deleted.
Without(its, k) == SubSeq(its, 1, k - 1) \o SubSeq(its, k + 1, Len(its))

----------------------------------------------------------------------------
\* C1 (as stated): the task reducer itself skips the creation when the title
\* is empty after trimming: reducing addTodo(title) with such a title
\* returns the collection unchanged.
C1_ReducerSkipsBlankTitle ==
    \A title \in TitleInputs :
        trim(title) = <<>> =>
            \A payload \in prepare(title) : addTodo(todos, payload) = todos

\* C1 (amended): an addTask intent (TodosCard.handleAdd) whose title is empty
\* after trimming changes neither the task collection nor the UI state,
\* because handleAdd returns before dispatching.
C1_BlankTitleNoChange ==
    [][(last'.op = "addTask" /\ last'.blank) =>
            (todos' = todos /\ ui' = ui /\ issued' = issued)]_vars

C1_Witness ==
    /\ last.op = "addTask"
    /\ last.blank
    /\ Len(items) >= 2

\* C2: the pending view and the completed view are disjoint as sets of ids,
\* their union is the id set of the collection, and a record is in the
\* pending view iff its done flag is false, in the completed view iff true.
C2_ViewsPartition ==
    LET P == idsOf(pendingItems)
        C == idsOf(completedItems)
    IN  /\ P \cap C = {}
        /\ P \cup C = idsOf(items)
        /\ \A i \in 1 .. Len(items) :
              /\ (items[i].id \in P) <=> ~items[i].done
              /\ (items[i].id \in C) <=> items[i].done

C2_Witness ==
    /\ Len(pendingItems) >= 1
    /\ Len(completedItems) >= 1
    /\ Len(items) = 2
    /\ Cardinality(issued) > Len(items)

\* C3: from the empty collection, while only addTask intents are issued the
\* collection size equals the number of calls with a non-blank title; and
\* every call with a non-blank title puts a new record with done = FALSE at
\* index 0, followed by the previous collection in its previous order.
C3_AddAtFront ==
    /\ [](adds.only => Len(items) = adds.nonBlank)
    /\ [][(last'.op = "addTask" /\ ~last'.blank) =>
            /\ Len(items') = Len(items) + 1
            /\ items'[1].done = FALSE
            /\ items'[1].id \notin idsOf(items)
            /\ Tail(items') = items]_vars

C3_Witness ==
    /\ adds.only
    /\ adds.nonBlank = 3
    /\ last.blank
    /\ Len(items) = 3

\* C4: no two records of the collection share an id, and the id of a record
\* entering the collection has never been given to any record before (so an
\* id whose record was removed is not assigned again).
C4_IdsUnique ==
    /\ [](/\ \A i, j \in 1 .. Len(items) : i # j => items[i].id # items[j].id
          /\ idsOf(items) \subseteq issued)
    /\ [][\A i \in 1 .. Len(items') :
            items'[i].id \notin idsOf(items) => items'[i].id \notin issued]_vars

C4_Witness ==
    /\ Created
    /\ Len(items) >= 2
    /\ Cardinality(issued) > Len(items)

\* C5: toggleTask(id) with id present keeps the length and order of the
\* collection, negates done of the matching record and leaves its id, title
\* and createdAt and every other record unchanged; with id absent the
\* collection is unchanged.  The UI state is unchanged either way.
C5_ToggleFrame ==
    [][last'.op = "toggleTask" =>
        /\ ui' = ui
        /\ Len(items') = Len(items)
        /\ \A i \in 1 .. Len(items) :
              IF items[i].id = last'.id
              THEN /\ items'[i].done = ~items[i].done
                   /\ items'[i].id = items[i].id
                   /\ items'[i].title = items[i].title
                   /\ items'[i].createdAt = items[i].createdAt
              ELSE items'[i] = items[i]]_vars

C5_Witness ==
    /\ last.op = "toggleTask"
    /\ Len(items) = 3
    /\ items[2].id = last.id
    /\ items[2].done
    /\ ~items[1].done

\* C6: after toggleTask(t.id) has acted on a task t of the collection, a
\* second toggleTask(t.id) returns t.done to its value before the first and
\* the whole collection to the one before the first.
C6_ToggleInvolution ==
    [][(last'.op = "toggleTask" /\ last'.id \in idsOf(items)) =>
        LET twice == toggleTodo(todos', last'.id)
            t == find(items, last'.id)
        IN  /\ todos' # todos
            /\ twice = todos
            /\ twice.items[t].done = items[t].done]_vars

C6_Witness ==
    /\ last.op = "toggleTask"
    /\ Len(items) >= 2
    /\ \E i \in 1 .. Len(items) : items[i].id = last.id /\ ~items[i].done

\* C7: removeTask(id) with id present yields the previous collection with
\* exactly the matching record deleted, the others unchanged and in their
\* previous order; with id absent the collection is identical.
C7_RemoveExact ==
    [][last'.op = "removeTask" =>
        IF last'.id \in idsOf(items)
        THEN \E k \in 1 .. Len(items) :
                /\ items[k].id = last'.id
                /\ items' = Without(items, k)
        ELSE items' = items]_vars

C7_Witness ==
    /\ last.op = "removeTask"
    /\ Len(items) = 2
    /\ issued = Ids
    /\ last.id \notin idsOf(items)

\* C8: after clearPending() the pending view is empty, the completed view is
\* the same sequence as before, and the collection equals the previous
\* completed view.
C8_ClearPending ==
    [][last'.op = "clearPending" =>
        /\ pendingItemsOf(todos') = <<>>
        /\ completedItemsOf(todos') = completedItemsOf(todos)
        /\ items' = completedItemsOf(todos)]_vars

C8_Witness ==
    /\ last.op = "clearPending"
    /\ Len(items) = 2
    /\ issued = Ids

\* C9: after clearCompleted() the completed view is empty and the pending
\* view is the same sequence as before; in particular clearCompleted() on
\* [Walk dog (pending), Buy milk (done)] leaves only the pending Walk dog.
C9_ClearCompleted ==
    [][last'.op = "clearCompleted" =>
        /\ completedItemsOf(todos') = <<>>
        /\ pendingItemsOf(todos') = pendingItemsOf(todos)
        /\ (/\ Len(items) = 2
            /\ items[1].title = WalkDog /\ ~items[1].done
            /\ items[2].title = BuyMilk /\ items[2].done)
           => items' = <<items[1]>>]_vars

C9_Witness ==
    /\ last.op = "clearCompleted"
    /\ Cardinality(issued) = 2
    /\ Len(items) = 1
    /\ items[1].title = WalkDog
    /\ ~items[1].done
    /\ items[1].createdAt = 1

\* C10: showBanner starts true; once it is false it is false after every
\* later intent; dismissBanner sets it to false and changes nothing else, so
\* a dismissBanner issued when it is already false leaves the UI state
\* unchanged.
C10_BannerOneWay ==
    /\ ui.showBanner = TRUE
    /\ [][ui.showBanner = FALSE => ui'.showBanner = FALSE]_vars
    /\ [][last'.op = "dismissBanner" =>
            /\ ui'.showBanner = FALSE
            /\ ui'.darkMode = ui.darkMode
            /\ (ui.showBanner = FALSE => ui' = ui)]_vars

C10_Witness ==
    /\ ui.showBanner = FALSE
    /\ ui.darkMode
    /\ last.op = "clearCompleted"
    /\ Len(items) >= 1

\* C11: darkMode starts false; every toggleDarkMode() changes darkMode, and
\* after it has acted a second toggleDarkMode() returns darkMode, and the
\* whole UI state, to the value before the first.
C11_DarkModeInvolution ==
    /\ ui.darkMode = FALSE
    /\ [][last'.op = "toggleDarkMode" =>
            LET twice == toggleDarkMode(ui')
            IN  /\ ui'.darkMode # ui.darkMode
                /\ twice.darkMode = ui.darkMode
                /\ twice = ui]_vars

C11_Witness ==
    /\ last.op = "toggleDarkMode"
    /\ ui.darkMode = FALSE
    /\ ui.showBanner = FALSE
    /\ Len(items) >= 1

\* C12: the slices are independent: toggleDarkMode and dismissBanner leave
\* the task collection unchanged, toggleDarkMode leaves showBanner unchanged,
\* and addTask, toggleTask, removeTask, clearPending, clearCompleted and
\* clearAll leave darkMode and showBanner unchanged.
UiIntents == {"toggleDarkMode", "dismissBanner"}

TaskIntents ==
    {"addTask", "toggleTask", "removeTask", "clearPending", "clearCompleted",
     "clearAll"}

C12_SlicesIndependent ==
    [][/\ last'.op \in UiIntents => todos' = todos
       /\ last'.op = "toggleDarkMode" => ui'.showBanner = ui.showBanner
       /\ last'.op \in TaskIntents =>
            /\ ui'.darkMode = ui.darkMode
            /\ ui'.showBanner = ui.showBanner]_vars

C12_Witness ==
    /\ last.op = "clearCompleted"
    /\ ui.darkMode
    /\ ui.showBanner
    /\ Len(items) = 2
    /\ Cardinality(issued) = 3

====
